---- MODULE Spec2Model ----
(***************************************************************************)
(* GO enrichment analysis (go-tools/enrichment_stats.py): base-term        *)
(* selection, the recursive enrichment tester with its memoised result     *)
(* table, and the stop-on-significance propagation policy.                 *)
(*                                                                         *)
(* One behaviour is one call of enrichmentAnalysis on inputs drawn in Init  *)
(* (hierarchy, background and subset association maps, minGenes,           *)
(* threshold).  The Python call stack of recursiveTester is the variable   *)
(* stack; the iteration order of Python sets (baseGOids, a term's parents) *)
(* is not fixed by the code and is a nondeterministic choice here.         *)
(* p-values are exact rationals <<numerator, denominator>>.                *)
(*                                                                         *)
(* Inputs: rooted DAGs over Terms (SpecCyclic: with one edge closing a     *)
(* cycle), closures computed from the parent edges; members annotated with *)
(* one term each, the subset members taken from the background.            *)
(***************************************************************************)
EXTENDS Integers, Sequences, FiniteSets, TLC

\* ------------------------------------------------------------- bounds
NTerms == 3             \* terms of the hierarchy: 1..NTerms
NGenes == 3             \* population members: 1..NGenes
RecursionLimit == 6     \* the interpreter's recursion limit, scaled down
NWorkers == 2           \* parallel workers: 1..NWorkers

Terms == 1..NTerms
Workers == 1..NWorkers
Genes == 1..NGenes

\* minGenes and threshold values the runs are configured with
MinGenesChoices == {1, 2}
Thresholds == {<<1, 3>>, <<2, 3>>}

VARIABLES
    GOdict,                 \* term -> [parents, recursive_parents, recursive_children]
    gafDict,                \* background member -> set of terms
    gafSubset,              \* subset member -> set of terms
    minGenes,
    threshold,
    baseGOids,              \* the base terms computed at the start of the run
    baseTodo,               \* base terms the for loop has not yet reached
    enrichmentTestResults,  \* [pValues, interestCount, backgroundCount]: term -> value
    stack,                  \* active recursiveTester calls, innermost last
    pc,                     \* "start", "run", "again", "after", "done", "RecursionError",
                            \* "corrected", "KeyError"
    evalCount,              \* term -> times its counts were computed
    writeCount,             \* term -> times its entry was written
    testType,               \* the method multipleTestingCorrection was called with
    count,                  \* a call of countGOassociations on its own:
                            \* [validTerms, gafDict, items, GOcounter, returned]
    workers                 \* worker -> its active recursiveTester calls, when the
                            \* base terms are handed to parallel workers

vars == <<GOdict, gafDict, gafSubset, minGenes, threshold, baseGOids, baseTodo,
          enrichmentTestResults, stack, pc, evalCount, writeCount, testType,
          count, workers>>

inputs == <<GOdict, gafDict, gafSubset, minGenes, threshold>>

\* what enrichmentAnalysis and recursiveTester never touch
others == <<testType, count, workers>>

\* `GOdict[GOid]` finds the term
Known(GOid) == GOid \in DOMAIN GOdict

\* ------------------------------------------------------- the hierarchy
RECURSIVE Closure(_, _)
Closure(par, S) ==
    LET n == S \cup UNION {par[x] : x \in S}
    IN  IF n = S THEN S ELSE Closure(par, n)

\* every term reachable from t by one or more parent edges
Ancestors(par, t) == Closure(par, par[t])

Descendants(par, t) == {c \in Terms : t \in Ancestors(par, c)}

MakeGOdict(par) ==
    [t \in Terms |-> [parents            |-> par[t],
                      recursive_parents  |-> Ancestors(par, t),
                      recursive_children |-> Descendants(par, t)]]

\* rooted DAGs in topological order: a parent has a larger number than its
\* child, term NTerms is the root and every other term has a parent
DAGs == {par \in [Terms -> SUBSET Terms] :
            /\ par[NTerms] = {}
            /\ \A t \in Terms \ {NTerms} :
                  par[t] # {} /\ \A u \in par[t] : u > t}

\* malformed hierarchies: a DAG with one edge added that closes a cycle
Cyclic == {c \in {[par EXCEPT ![t] = par[t] \cup {u}] :
                     par \in DAGs, t \in Terms, u \in Terms} :
              \E t \in Terms : t \in Ancestors(c, t)}

\* ------------------------------------------------- the association maps
\* a member belongs to the background only, to both maps, or to the subset
\* only; it is annotated with one term
MemberCode(m) == CASE m[2] = "background" -> 3 * m[1]
                   [] m[2] = "both"       -> 3 * m[1] + 1
                   [] m[2] = "subset"     -> 3 * m[1] + 2

\* populations up to renaming of members (members listed in ascending
\* code), with a subset that is not empty and not larger than the background
PopulationsOver(memberships) ==
    {a \in [Genes -> Terms \X memberships] :
        /\ \A g \in Genes \ {NGenes} : MemberCode(a[g]) <= MemberCode(a[g + 1])
        /\ \E g \in Genes : a[g][2] # "background"
        /\ Cardinality({g \in Genes : a[g][2] # "background"})
              <= Cardinality({g \in Genes : a[g][2] # "subset"})}

\* the subset members are background members
Populations == PopulationsOver({"background", "both"})

BackgroundOf(a) == [g \in {h \in Genes : a[h][2] # "subset"} |-> {a[g][1]}]
SubsetOf(a)     == [g \in {h \in Genes : a[h][2] # "background"} |-> {a[g][1]}]

\* ------------------------------------------------------ pure functions
RECURSIVE Binomial(_, _)
Binomial(n, k) ==
    IF k < 0 \/ k > n THEN 0
    ELSE IF k = 0 THEN 1
    ELSE (Binomial(n - 1, k - 1) * n) \div k

RECURSIVE SumFrom(_, _, _, _, _)
SumFrom(i, hi, M, n, N) ==
    IF i > hi THEN 0
    ELSE Binomial(n, i) * Binomial(M - n, N - i) + SumFrom(i + 1, hi, M, n, N)

Min(a, b) == IF a <= b THEN a ELSE b

\* hypergeom.sf(subsetGO - 1, backgroundTotal, backgroundGO, subsetTotal):
\* P(X >= subsetGO), as numerator over Binomial(backgroundTotal, subsetTotal)
enrichmentOneSided(subsetGO, backgroundTotal, backgroundGO, subsetTotal) ==
    <<SumFrom(IF subsetGO < 0 THEN 0 ELSE subsetGO,
              Min(backgroundGO, subsetTotal),
              backgroundTotal, backgroundGO, subsetTotal),
      Binomial(backgroundTotal, subsetTotal)>>

\* p > q for rationals with positive denominators
Greater(p, q) == p[1] * q[2] > q[1] * p[2]

countGOassociations(validTerms, gaf) ==
    Cardinality({gene \in DOMAIN gaf : gaf[gene] \cap validTerms # {}})

\* the inputs of one run
InputsFrom(hierarchies, populations, mins) ==
    {[GOdict |-> MakeGOdict(par), gafDict |-> BackgroundOf(a),
      gafSubset |-> SubsetOf(a), minGenes |-> m, threshold |-> th] :
        par \in hierarchies, a \in populations,
        m \in mins, th \in Thresholds}

InputsOver(hierarchies) == InputsFrom(hierarchies, Populations, MinGenesChoices)


CurrentInputs ==
    [GOdict |-> GOdict, gafDict |-> gafDict, gafSubset |-> gafSubset,
     minGenes |-> minGenes, threshold |-> threshold]

\* --------------------------------------------------- base-term selection
subsetGOidsOf(inp) == UNION {inp.gafSubset[gene] : gene \in DOMAIN inp.gafSubset}

subsetGOidsParentsOf(inp) ==
    UNION {inp.GOdict[GOid].recursive_parents : GOid \in subsetGOidsOf(inp)}

\* the ancestor test done on the direct parents only
BaseGOidsDirectParents(inp) ==
    {GOid \in subsetGOidsOf(inp) :
        GOid \notin UNION {inp.GOdict[t].parents : t \in subsetGOidsOf(inp)}}

BaseGOidsOf(inp) ==
    {GOid \in subsetGOidsOf(inp) : GOid \notin subsetGOidsParentsOf(inp)}

subsetGOids == subsetGOidsOf(CurrentInputs)
subsetGOidsParents == subsetGOidsParentsOf(CurrentInputs)
BaseGOids == BaseGOidsOf(CurrentInputs)

\* ------------------------------------------------------ recursiveTester
\* the values recursiveTester computes for a term, from the inputs alone
\* the closure taken upwards in place of downwards
validTermsUpward(inp, GOid) == {GOid} \cup inp.GOdict[GOid].recursive_parents

validTermsOf(inp, GOid) == {GOid} \cup inp.GOdict[GOid].recursive_children
backgroundGOOf(inp, GOid) == countGOassociations(validTermsOf(inp, GOid), inp.gafDict)
subsetGOOf(inp, GOid) == countGOassociations(validTermsOf(inp, GOid), inp.gafSubset)
pValOf(inp, GOid) ==
    enrichmentOneSided(subsetGOOf(inp, GOid), Cardinality(DOMAIN inp.gafDict),
                       backgroundGOOf(inp, GOid), Cardinality(DOMAIN inp.gafSubset))

backgroundTotal == Cardinality(DOMAIN gafDict)
subsetTotal == Cardinality(DOMAIN gafSubset)
validTerms(GOid) == validTermsOf(CurrentInputs, GOid)
backgroundGO(GOid) == backgroundGOOf(CurrentInputs, GOid)
subsetGO(GOid) == subsetGOOf(CurrentInputs, GOid)
pVal(GOid) == pValOf(CurrentInputs, GOid)

\* the memo test left out: every call evaluates its term
NotTestedAlways(GOid) == TRUE

\* `GOid not in enrichmentTestResults['pValues']`
NotTested(GOid) == GOid \notin DOMAIN enrichmentTestResults.pValues

\* the low-count test off by one
LowCountOffByOne(GOid) == backgroundGO(GOid) < minGenes - 1

\* `backgroundGO < minGenes`
LowCount(GOid) == backgroundGO(GOid) < minGenes

\* `pVal >= threshold` in place of `pVal > threshold`
NotSignificantOrEqual(GOid) == ~Greater(threshold, pVal(GOid))

\* `pVal > threshold`
NotSignificant(GOid) == Greater(pVal(GOid), threshold)

Put(f, k, v) == [x \in DOMAIN f \cup {k} |-> IF x = k THEN v ELSE f[x]]

Recorded(GOid) ==
    [pValues         |-> Put(enrichmentTestResults.pValues, GOid, pVal(GOid)),
     interestCount   |-> Put(enrichmentTestResults.interestCount, GOid, subsetGO(GOid)),
     backgroundCount |-> Put(enrichmentTestResults.backgroundCount, GOid, backgroundGO(GOid))]

\* a call that has not yet run its first statement
Call(GOid) == [GOid |-> GOid, phase |-> "enter", todo |-> {}]

Top == stack[Len(stack)]
Pop == SubSeq(stack, 1, Len(stack) - 1)
SetTop(f) == [stack EXCEPT ![Len(stack)] = f]
Running == pc \in {"run", "again", "after"}
Entering == Running /\ stack # <<>> /\ Top.phase = "enter"
Looping == Running /\ stack # <<>> /\ Top.phase = "loop"

\* the loop calling recursiveTester on GOid itself in place of `parent`
LoopOverSelf(GOid) == IF GOdict[GOid].parents = {} THEN {} ELSE {GOid}

\* the parents a `for parent in GOdict[GOid].parents` loop iterates over
LoopOver(GOid) == GOdict[GOid].parents

Bump(f, k) == [f EXCEPT ![k] = @ + 1]

\* ------------------------------------- the run as a function of inputs
\* the sets of tested terms recursiveTester(GOid) can leave, started with
\* the tested set T, over every iteration order of the parents sets
RECURSIVE TesterOutcomes(_, _, _), LoopOutcomes(_, _, _)
TesterOutcomes(inp, GOid, T) ==
    IF GOid \in T THEN {T}
    ELSE IF backgroundGOOf(inp, GOid) < inp.minGenes
         THEN LoopOutcomes(inp, inp.GOdict[GOid].parents, {T})
    ELSE IF Greater(pValOf(inp, GOid), inp.threshold)
         THEN LoopOutcomes(inp, inp.GOdict[GOid].parents, {T \cup {GOid}})
    ELSE {T \cup {GOid}}

\* a for loop calling recursiveTester on every member of todo, in any order
LoopOutcomes(inp, todo, Ts) ==
    IF todo = {} THEN Ts
    ELSE UNION {LoopOutcomes(inp, todo \ {GOid},
                             UNION {TesterOutcomes(inp, GOid, T) : T \in Ts}) :
                   GOid \in todo}

\* the tested sets enrichmentAnalysis can end with, over every order
RunOutcomes(inp) == LoopOutcomes(inp, BaseGOidsOf(inp), {{}})

\* ------------------------------------------------------------- Init
InitRun ==
    /\ baseGOids = {}
    /\ baseTodo = {}
    /\ enrichmentTestResults = [pValues |-> <<>>, interestCount |-> <<>>,
                                backgroundCount |-> <<>>]
    /\ stack = <<>>
    /\ pc = "start"
    /\ evalCount = [t \in Terms |-> 0]
    /\ writeCount = [t \in Terms |-> 0]
    /\ testType = "unset"
    /\ count = [validTerms |-> {}, gafDict |-> <<>>, items |-> {}, GOcounter |-> 0,
                returned |-> FALSE]
    /\ workers = [w \in Workers |-> <<>>]

InitFrom(inputSet) ==
    \E inp \in inputSet :
        /\ GOdict = inp.GOdict
        /\ gafDict = inp.gafDict
        /\ gafSubset = inp.gafSubset
        /\ minGenes = inp.minGenes
        /\ threshold = inp.threshold

InitInputs(hierarchies) == InitFrom(InputsOver(hierarchies))

Init == InitInputs(DAGs) /\ InitRun

\* ------------------------------------------------------------ actions
\* enrichmentAnalysis up to the for loop: the base terms and the empty table
SelectBase ==
    /\ pc = "start"
    /\ \A GOid \in subsetGOids : Known(GOid)
    /\ baseGOids' = BaseGOids
    /\ baseTodo' = BaseGOids
    /\ pc' = "run"
    /\ UNCHANGED <<inputs, others, enrichmentTestResults, stack, evalCount, writeCount>>

\* one iteration of `for GOid in baseGOids`: the call of recursiveTester
CallBase(GOid) ==
    /\ pc \in {"run", "after"}
    /\ stack = <<>>
    /\ GOid \in baseTodo
    /\ baseTodo' = baseTodo \ {GOid}
    /\ stack' = <<Call(GOid)>>
    /\ UNCHANGED <<inputs, others, baseGOids, enrichmentTestResults, pc, evalCount, writeCount>>

\* the term already has a p-value: the call returns at once
MemoReturn ==
    /\ Entering
    /\ ~NotTested(Top.GOid)
    /\ stack' = Pop
    /\ UNCHANGED <<inputs, others, baseGOids, baseTodo, enrichmentTestResults, pc,
                   evalCount, writeCount>>

\* too few background members: nothing recorded, the parents loop starts
SkipLowCount ==
    /\ Entering
    /\ NotTested(Top.GOid)
    /\ Known(Top.GOid)
    /\ LowCount(Top.GOid)
    /\ evalCount' = Bump(evalCount, Top.GOid)
    /\ stack' = SetTop([Top EXCEPT !.phase = "loop", !.todo = LoopOver(Top.GOid)])
    /\ UNCHANGED <<inputs, others, baseGOids, baseTodo, enrichmentTestResults, pc, writeCount>>

\* the term is recorded and is not significant: the parents loop starts
RecordAndPropagate ==
    /\ Entering
    /\ NotTested(Top.GOid)
    /\ Known(Top.GOid)
    /\ ~LowCount(Top.GOid)
    /\ NotSignificant(Top.GOid)
    /\ evalCount' = Bump(evalCount, Top.GOid)
    /\ writeCount' = Bump(writeCount, Top.GOid)
    /\ enrichmentTestResults' = Recorded(Top.GOid)
    /\ stack' = SetTop([Top EXCEPT !.phase = "loop", !.todo = LoopOver(Top.GOid)])
    /\ UNCHANGED <<inputs, others, baseGOids, baseTodo, pc>>

\* the term is recorded and is significant: the call returns
RecordAndStop ==
    /\ Entering
    /\ NotTested(Top.GOid)
    /\ Known(Top.GOid)
    /\ ~LowCount(Top.GOid)
    /\ ~NotSignificant(Top.GOid)
    /\ evalCount' = Bump(evalCount, Top.GOid)
    /\ writeCount' = Bump(writeCount, Top.GOid)
    /\ enrichmentTestResults' = Recorded(Top.GOid)
    /\ stack' = Pop
    /\ UNCHANGED <<inputs, others, baseGOids, baseTodo, pc>>

\* `return recursiveTester(parent, ...)` inside the loop: the first parent only
CallParentThenReturn(parent) ==
    /\ Looping
    /\ parent \in Top.todo
    /\ Len(stack) < RecursionLimit
    /\ stack' = Append(SetTop([Top EXCEPT !.todo = {}]), Call(parent))
    /\ UNCHANGED <<inputs, others, baseGOids, baseTodo, enrichmentTestResults, pc,
                   evalCount, writeCount>>

\* one iteration of a parents loop: the recursive call
CallParent(parent) ==
    /\ Looping
    /\ parent \in Top.todo
    /\ Len(stack) < RecursionLimit
    /\ stack' = Append(SetTop([Top EXCEPT !.todo = @ \ {parent}]), Call(parent))
    /\ UNCHANGED <<inputs, others, baseGOids, baseTodo, enrichmentTestResults, pc,
                   evalCount, writeCount>>

\* the parents loop is over: the call returns
Return ==
    /\ Looping
    /\ Top.todo = {}
    /\ stack' = Pop
    /\ UNCHANGED <<inputs, others, baseGOids, baseTodo, enrichmentTestResults, pc,
                   evalCount, writeCount>>

\* the for loop over the base terms is over: enrichmentAnalysis returns
Finish ==
    /\ pc \in {"run", "after"}
    /\ stack = <<>>
    /\ baseTodo = {}
    /\ pc' = "done"
    /\ UNCHANGED <<inputs, others, baseGOids, baseTodo, enrichmentTestResults, stack,
                   evalCount, writeCount>>

Next ==
    \/ SelectBase
    \/ \E GOid \in Terms : CallBase(GOid)
    \/ MemoReturn
    \/ SkipLowCount
    \/ RecordAndPropagate
    \/ RecordAndStop
    \/ \E parent \in Terms : CallParent(parent)
    \/ Return
    \/ Finish

Spec == Init /\ [][Next]_vars

\* ---------------------------------------------- malformed hierarchies
\* a call beyond the interpreter's recursion limit raises RecursionError,
\* which no caller catches: the run is aborted
RecursionError ==
    /\ Looping
    /\ Top.todo # {}
    /\ Len(stack) >= RecursionLimit
    /\ stack' = <<>>
    /\ pc' = "RecursionError"
    /\ UNCHANGED <<inputs, others, baseGOids, baseTodo, enrichmentTestResults,
                   evalCount, writeCount>>

InitCyclic == InitInputs(Cyclic) /\ InitRun

NextCyclic == Next \/ RecursionError

SpecCyclic == InitCyclic /\ [][NextCyclic]_vars

\* ------------------------------------------------------- wider inputs
\* inputs that also have subset members outside the background and a
\* minGenes no term reaches
InitWide ==
    /\ InitFrom(InputsFrom(DAGs, PopulationsOver({"background", "both", "subset"}),
                           MinGenesChoices \cup {NGenes + 1}))
    /\ InitRun

SpecWide == InitWide /\ [][Next]_vars

\* ------------------------------------- the tester called a second time
\* recursiveTester called again on a term whose call from the for loop has
\* returned, on the same table (once in a run)
CallAgain(GOid) ==
    /\ pc = "run"
    /\ stack = <<>>
    /\ GOid \in baseGOids \ baseTodo
    /\ stack' = <<Call(GOid)>>
    /\ pc' = "again"
    /\ UNCHANGED <<inputs, others, baseGOids, baseTodo, enrichmentTestResults,
                   evalCount, writeCount>>

\* the second call has returned: the for loop goes on
ReturnAgain ==
    /\ pc = "again"
    /\ stack = <<>>
    /\ pc' = "after"
    /\ UNCHANGED <<inputs, others, baseGOids, baseTodo, enrichmentTestResults, stack,
                   evalCount, writeCount>>

NextAgain == Next \/ (\E GOid \in Terms : CallAgain(GOid)) \/ ReturnAgain

SpecAgain == Init /\ [][NextAgain]_vars

\* ------------------------- the for loop started at every associated term
\* enrichmentAnalysis with `for GOid in subsetGOids` in place of
\* `for GOid in baseGOids`: the ancestors are not left out of the start set
SelectAll ==
    /\ pc = "start"
    /\ baseGOids' = BaseGOids
    /\ baseTodo' = subsetGOids
    /\ pc' = "run"
    /\ UNCHANGED <<inputs, others, enrichmentTestResults, stack, evalCount, writeCount>>

NextAllStarts ==
    \/ SelectAll
    \/ \E GOid \in Terms : CallBase(GOid)
    \/ MemoReturn
    \/ SkipLowCount
    \/ RecordAndPropagate
    \/ RecordAndStop
    \/ \E parent \in Terms : CallParent(parent)
    \/ Return
    \/ Finish

SpecAllStarts == Init /\ [][NextAllStarts]_vars

\* ------------------------------------------ terms absent from GOdict
\* the hierarchy without the record of term x; the closures of the other
\* terms and the association maps may still name x
Without(inp, x) == [inp EXCEPT !.GOdict = [t \in Terms \ {x} |-> inp.GOdict[t]]]

\* at most one record is absent (x = 0: none)
InitMissing ==
    /\ InitFrom({Without(inp, x) : inp \in InputsOver(DAGs), x \in 0..NTerms})
    /\ InitRun

\* `GOdict[GOid]` on a term GOdict does not hold: line 191 for a term of the
\* subset map, line 271 for the term of a call
KeyError ==
    /\ \/ pc = "start" /\ \E GOid \in subsetGOids : ~Known(GOid)
       \/ Entering /\ NotTested(Top.GOid) /\ ~Known(Top.GOid)
    /\ pc' = "KeyError"
    /\ UNCHANGED <<inputs, others, baseGOids, baseTodo, enrichmentTestResults, stack,
                   evalCount, writeCount>>

NextMissing == Next \/ KeyError

SpecMissing == InitMissing /\ [][NextMissing]_vars

\* ------------------------------------------ multipleTestingCorrection
\* "bonferroni" and "fdr" are the documented methods, "holm" is any other
\* string
Methods == {"bonferroni", "fdr", "holm"}

\* p-values of a finished table
PValueChoices == {<<0, 1>>, <<1, 20>>, <<1, 10>>, <<1, 4>>, <<1, 2>>, <<1, 1>>}

\* the iteration orders of a dict with the key set S
Orders(S) ==
    {f \in [1..Cardinality(S) -> S] : \A i, j \in DOMAIN f : i # j => f[i] # f[j]}

\* p * n / i
Scale(p, n, i) == <<p[1] * n, p[2] * i>>

\* pvals_corrected[pvals_corrected > 1] = 1
Clip(p) == IF p[1] > p[2] THEN <<1, 1>> ELSE p

\* a least element, as np.minimum picks it
RatMin(S) == CHOOSE p \in S : \A q \in S : ~Greater(p, q)

\* np.argsort: positions in ascending order of value
argsort(pvals) ==
    CHOOSE s \in Orders(DOMAIN pvals) :
        \A i, j \in DOMAIN s : i < j => ~Greater(pvals[s[i]], pvals[s[j]])

bonferroniDivided(pvals) ==
    [i \in DOMAIN pvals |-> Clip(Scale(pvals[i], 1, Len(pvals)))]

\* multipletests(method='bonferroni'): pvals * ntests, clipped at 1
bonferroni(pvals) ==
    [i \in DOMAIN pvals |-> Clip(Scale(pvals[i], Len(pvals), 1))]

\* multipletests(method='fdr_bh'): sort, divide by the ecdf i/n, running
\* minimum from the largest down, clip at 1, back to the order given
fdr_bh(pvals) ==
    LET n == Len(pvals)
        sortind == argsort(pvals)
        raw == [i \in 1..n |-> Scale(pvals[sortind[i]], n, i)]
        corrected == [i \in 1..n |-> Clip(RatMin({raw[j] : j \in i..n}))]
    IN  [k \in 1..n |-> corrected[CHOOSE i \in 1..n : sortind[i] = k]]

\* corr[1] of the branch taken at line 337
multipletests(pvals, method) ==
    IF method = "bonferroni" THEN bonferroni(pvals) ELSE fdr_bh(pvals)

zipShifted(terms, values) ==
    [t \in {terms[i] : i \in DOMAIN terms} |->
        values[((CHOOSE i \in DOMAIN terms : terms[i] = t) % Len(terms)) + 1]]

\* {term: corrValue for term, corrValue in zip(terms, corr[1])}
zip(terms, values) ==
    [t \in {terms[i] : i \in DOMAIN terms} |->
        values[CHOOSE i \in DOMAIN terms : terms[i] = t]]

\* a finished table: any non-empty set of tested terms, any p-values
InitCorrection ==
    /\ InitFrom({CHOOSE inp \in InputsOver(DAGs) : TRUE})
    /\ baseGOids = {}
    /\ baseTodo = {}
    /\ stack = <<>>
    /\ pc = "done"
    /\ evalCount = [t \in Terms |-> 0]
    /\ writeCount = [t \in Terms |-> 0]
    /\ testType = "unset"
    /\ count = [validTerms |-> {}, gafDict |-> <<>>, items |-> {}, GOcounter |-> 0,
                returned |-> FALSE]
    /\ workers = [w \in Workers |-> <<>>]
    /\ \E T \in (SUBSET Terms) \ {{}} :
         \E pv \in [T -> PValueChoices] :
            enrichmentTestResults =
                [pValues |-> pv, interestCount |-> [t \in T |-> 1],
                 backgroundCount |-> [t \in T |-> NGenes]]

multipleTestingCorrection(method) ==
    /\ pc = "done"
    /\ \E terms \in Orders(DOMAIN enrichmentTestResults.pValues) :
         LET pvals == [i \in DOMAIN terms |-> enrichmentTestResults.pValues[terms[i]]]
             corr == multipletests(pvals, method)
         IN  enrichmentTestResults' =
                [pValues |-> enrichmentTestResults.pValues,
                 interestCount |-> enrichmentTestResults.interestCount,
                 backgroundCount |-> enrichmentTestResults.backgroundCount,
                 corr |-> zip(terms, corr)]
    /\ testType' = method
    /\ pc' = "corrected"
    /\ UNCHANGED <<inputs, count, workers, baseGOids, baseTodo, stack, evalCount, writeCount>>

NextCorrection == \E method \in Methods : multipleTestingCorrection(method)

SpecCorrection == InitCorrection /\ [][NextCorrection]_vars

\* ---------------------------------------------- countGOassociations
\* the term sets of a member: one or two terms
GOidSets == {S \in SUBSET Terms : Cardinality(S) \in 1..2}

GOidSetCode(S) ==
    (CHOOSE t \in S : \A u \in S : t <= u) * (NTerms + 1)
        + (CHOOSE t \in S : \A u \in S : t >= u)

\* association maps of up to NGenes members, up to renaming of the members
\* (term sets listed in ascending code)
GafDicts ==
    {gaf \in UNION {[1..k -> GOidSets] : k \in 0..NGenes} :
        \A g \in DOMAIN gaf :
            g + 1 \in DOMAIN gaf => GOidSetCode(gaf[g]) <= GOidSetCode(gaf[g + 1])}

\* what a member adds when counted once per shared term
IncrementPerSharedTerm(terms, GOids) == Cardinality(terms \cap GOids)

\* `if not validTerms.isdisjoint(GOids): GOcounter += 1`
Increment(terms, GOids) == IF terms \cap GOids # {} THEN 1 ELSE 0

InitCount ==
    /\ InitFrom({CHOOSE inp \in InputsOver(DAGs) : TRUE})
    /\ baseGOids = {}
    /\ baseTodo = {}
    /\ enrichmentTestResults = [pValues |-> <<>>, interestCount |-> <<>>,
                                backgroundCount |-> <<>>]
    /\ stack = <<>>
    /\ pc = "start"
    /\ evalCount = [t \in Terms |-> 0]
    /\ writeCount = [t \in Terms |-> 0]
    /\ testType = "unset"
    /\ \E terms \in SUBSET Terms, gaf \in GafDicts :
          count = [validTerms |-> terms, gafDict |-> gaf, items |-> DOMAIN gaf,
                   GOcounter |-> 0, returned |-> FALSE]
    /\ workers = [w \in Workers |-> <<>>]

\* one iteration of `for gene, GOids in gafDict.items()`
CountItem(gene) ==
    /\ ~count.returned
    /\ gene \in count.items
    /\ count' = [count EXCEPT
                    !.items = @ \ {gene},
                    !.GOcounter = @ + Increment(count.validTerms, count.gafDict[gene])]
    /\ UNCHANGED <<inputs, testType, workers, baseGOids, baseTodo, enrichmentTestResults, stack,
                   pc, evalCount, writeCount>>

\* `return GOcounter`
CountReturn ==
    /\ ~count.returned
    /\ count.items = {}
    /\ count' = [count EXCEPT !.returned = TRUE]
    /\ UNCHANGED <<inputs, testType, workers, baseGOids, baseTodo, enrichmentTestResults, stack,
                   pc, evalCount, writeCount>>

NextCount == (\E gene \in Genes : CountItem(gene)) \/ CountReturn

SpecCount == InitCount /\ [][NextCount]_vars

\* ------------------------------------- base terms handled in parallel
\* Each worker takes base terms off the loop of line 217 and runs
\* recursiveTester on the shared table; a step is one statement that reads or
\* writes the table, with the local computation that follows it.
WTop(w) == workers[w][Len(workers[w])]
WPop(w) == [workers EXCEPT ![w] = SubSeq(@, 1, Len(@) - 1)]
WSetTop(w, f) == [workers EXCEPT ![w] = [@ EXCEPT ![Len(@)] = f]]
At(w, phase) == pc = "run" /\ workers[w] # <<>> /\ WTop(w).phase = phase

\* what follows the test of line 300, or the branch of line 284
WLoop(w) == WSetTop(w, [WTop(w) EXCEPT !.phase = "loop", !.todo = LoopOver(WTop(w).GOid)])

WorkerCallBase(w, GOid) ==
    /\ pc = "run"
    /\ workers[w] = <<>>
    /\ GOid \in baseTodo
    /\ baseTodo' = baseTodo \ {GOid}
    /\ workers' = [workers EXCEPT ![w] = <<Call(GOid)>>]
    /\ UNCHANGED <<inputs, testType, count, baseGOids, enrichmentTestResults, stack, pc,
                   evalCount, writeCount>>

\* line 267: the membership test
WorkerTest(w) ==
    /\ At(w, "enter")
    /\ workers' = IF NotTested(WTop(w).GOid)
                  THEN WSetTop(w, [WTop(w) EXCEPT !.phase = "evaluate"])
                  ELSE WPop(w)
    /\ UNCHANGED <<inputs, testType, count, baseGOids, baseTodo, enrichmentTestResults,
                   stack, pc, evalCount, writeCount>>

\* lines 270-293: the counts, the low-count branch, the p-value
WorkerEvaluate(w) ==
    /\ At(w, "evaluate")
    /\ Known(WTop(w).GOid)
    /\ evalCount' = Bump(evalCount, WTop(w).GOid)
    /\ workers' = IF LowCount(WTop(w).GOid)
                  THEN WLoop(w)
                  ELSE WSetTop(w, [WTop(w) EXCEPT !.phase = "record"])
    /\ UNCHANGED <<inputs, testType, count, baseGOids, baseTodo, enrichmentTestResults,
                   stack, pc, writeCount>>

\* line 294
WorkerWritePValue(w) ==
    /\ At(w, "record")
    /\ enrichmentTestResults' =
          [enrichmentTestResults EXCEPT
              !.pValues = Put(@, WTop(w).GOid, pVal(WTop(w).GOid))]
    /\ writeCount' = Bump(writeCount, WTop(w).GOid)
    /\ workers' = WSetTop(w, [WTop(w) EXCEPT !.phase = "counts"])
    /\ UNCHANGED <<inputs, testType, count, baseGOids, baseTodo, stack, pc, evalCount>>

\* lines 295-304: the two counts, then the test of line 300
WorkerWriteCounts(w) ==
    /\ At(w, "counts")
    /\ enrichmentTestResults' =
          [enrichmentTestResults EXCEPT
              !.interestCount = Put(@, WTop(w).GOid, subsetGO(WTop(w).GOid)),
              !.backgroundCount = Put(@, WTop(w).GOid, backgroundGO(WTop(w).GOid))]
    /\ workers' = IF NotSignificant(WTop(w).GOid) THEN WLoop(w) ELSE WPop(w)
    /\ UNCHANGED <<inputs, testType, count, baseGOids, baseTodo, stack, pc, evalCount,
                   writeCount>>

WorkerCallParent(w, parent) ==
    /\ At(w, "loop")
    /\ parent \in WTop(w).todo
    /\ workers' = [workers EXCEPT
                      ![w] = Append([@ EXCEPT ![Len(@)].todo = @ \ {parent}], Call(parent))]
    /\ UNCHANGED <<inputs, testType, count, baseGOids, baseTodo, enrichmentTestResults,
                   stack, pc, evalCount, writeCount>>

WorkerReturn(w) ==
    /\ At(w, "loop")
    /\ WTop(w).todo = {}
    /\ workers' = WPop(w)
    /\ UNCHANGED <<inputs, testType, count, baseGOids, baseTodo, enrichmentTestResults,
                   stack, pc, evalCount, writeCount>>

\* every base term handed out and every worker idle
WorkersFinish ==
    /\ pc = "run"
    /\ baseTodo = {}
    /\ \A w \in Workers : workers[w] = <<>>
    /\ pc' = "done"
    /\ UNCHANGED <<inputs, others, baseGOids, baseTodo, enrichmentTestResults, stack,
                   evalCount, writeCount>>

NextParallel ==
    \/ SelectBase
    \/ \E w \in Workers :
          \/ \E GOid \in Terms : WorkerCallBase(w, GOid)
          \/ WorkerTest(w)
          \/ WorkerEvaluate(w)
          \/ WorkerWritePValue(w)
          \/ WorkerWriteCounts(w)
          \/ \E parent \in Terms : WorkerCallParent(w, parent)
          \/ WorkerReturn(w)
    \/ WorkersFinish

SpecParallel == Init /\ [][NextParallel]_vars

\* ------------------------------------------------------------- claims
pValues == enrichmentTestResults.pValues
Tested == DOMAIN pValues
Entry(table, t) == <<table.pValues[t], table.interestCount[t], table.backgroundCount[t]>>
SameKeys == /\ DOMAIN enrichmentTestResults.interestCount = Tested
            /\ DOMAIN enrichmentTestResults.backgroundCount = Tested

\* the recorded p-value of t is <= threshold
Significant(t) == t \in Tested /\ ~Greater(pValues[t], threshold)

\* t was evaluated and its parents loop ran: it was skipped as low-count or
\* recorded with a p-value > threshold
Propagated(t) ==
    /\ evalCount[t] > 0
    /\ \/ backgroundGO(t) < minGenes
       \/ t \in Tested /\ Greater(pValues[t], threshold)

\* C1: within one run the entry of a term is written at most once: a term
\* that has an entry keeps it, unchanged, in every later step, and no term's
\* entry is ever written a second time.
C1_WrittenAtMostOnce ==
    [][\A t \in Terms :
          /\ t \in Tested =>
                /\ t \in DOMAIN enrichmentTestResults'.pValues
                /\ Entry(enrichmentTestResults', t) = Entry(enrichmentTestResults, t)
          /\ writeCount'[t] <= 1]_vars

\* a recorded shared ancestor is reached again, from a second base term
C1_Witness ==
    /\ Entering
    /\ Top.GOid \in Tested
    /\ writeCount[Top.GOid] = 1
    /\ Cardinality(baseGOids) >= 2
    /\ Top.GOid \notin baseGOids

\* C2: every term in the result table has backgroundCount >= minGenes, and
\* a term whose background count is below minGenes has no entry in any of
\* the three maps.
C2_RecordedHaveMinGenes ==
    /\ SameKeys
    /\ \A t \in Tested : enrichmentTestResults.backgroundCount[t] >= minGenes
    /\ \A t \in Terms : backgroundGO(t) < minGenes => t \notin Tested

\* a low-count term was visited, skipped, and the run went on to its parent
C2_Witness ==
    \E t \in Terms :
        /\ evalCount[t] > 0
        /\ backgroundGO(t) < minGenes
        /\ t \notin Tested
        /\ \E p \in GOdict[t].parents : p \in Tested

\* C3: no call is made from a call on a term recorded with p-value <=
\* threshold, and every recorded term is a base term or a parent of a
\* visited term that was skipped as low-count or recorded with p-value >
\* threshold.
C3_StopOnSignificance ==
    /\ \A i \in 2..Len(stack) : ~Significant(stack[i - 1].GOid)
    /\ \A i \in 1..Len(stack) : stack[i].phase = "loop" => ~Significant(stack[i].GOid)
    /\ \A p \in Tested :
          \/ p \in baseGOids
          \/ \E c \in Terms : p \in GOdict[c].parents /\ Propagated(c)

\* the run ended with a significant term whose parents were never tested
C3_Witness ==
    /\ pc = "done"
    /\ \E c \in Terms :
          /\ Significant(c)
          /\ GOdict[c].parents # {}
          /\ GOdict[c].parents \cap Tested = {}

RECURSIVE Height(_)
Height(t) ==
    IF GOdict[t].parents = {} THEN 1
    ELSE 1 + (CHOOSE h \in {Height(p) : p \in GOdict[t].parents} :
                 \A k \in {Height(p) : p \in GOdict[t].parents} : k <= h)

\* the number of terms on the longest child-to-ancestor chain
LongestChain == CHOOSE h \in {Height(t) : t \in Terms} :
                    \A k \in {Height(t) : t \in Terms} : k <= h

RECURSIVE CallCost(_), LoopCost(_)
\* an upper bound on the steps of one call on t: its first statement, one
\* call per parent and what that call takes, and its return
CallCost(t) == 2 + LoopCost(GOdict[t].parents)
LoopCost(S) ==
    IF S = {} THEN 0
    ELSE LET p == CHOOSE x \in S : TRUE
         IN  1 + CallCost(p) + LoopCost(S \ {p})

RECURSIVE StackCost(_)
StackCost(i) ==
    IF i = 0 THEN 0
    ELSE StackCost(i - 1) +
         (IF stack[i].phase = "enter" THEN CallCost(stack[i].GOid)
          ELSE 1 + LoopCost(stack[i].todo))

\* an upper bound on the steps the run has left
StepsLeft ==
    CASE pc = "start" -> 2 + LoopCost(BaseGOids)
      [] Running      -> 1 + LoopCost(baseTodo) + StackCost(Len(stack))
      [] OTHER        -> 0

\* C4: over an acyclic hierarchy the run terminates (every step lowers the
\* natural number StepsLeft, and a step is possible until enrichmentAnalysis
\* has returned) and the depth of nested recursiveTester calls never exceeds
\* the number of terms on the longest child-to-ancestor chain.
C4_TerminatesWithinDepth ==
    /\ [][StepsLeft' < StepsLeft]_vars
    /\ [](StepsLeft >= 0 /\ (pc # "done" => ENABLED Next))
    /\ [](Len(stack) <= LongestChain)

\* the recursion is as deep as the longest chain, which has three terms
C4_Witness ==
    /\ Len(stack) = LongestChain
    /\ LongestChain >= 3

\* C5: over a hierarchy with a cycle every recursiveTester call returns: the
\* run never ends in the interpreter's RecursionError.
C5_EveryCallReturns == pc # "RecursionError"

\* C6: the base set is the set of associated terms that are in no associated
\* term's recursive-ancestor set; no base term is an ancestor of another base
\* term; every associated term is a base term or an ancestor of one.
C6_BaseTermsMinimalFrontier ==
    pc # "start" =>
        /\ baseGOids = {t \in subsetGOids :
                           \A u \in subsetGOids : t \notin GOdict[u].recursive_parents}
        /\ \A b1, b2 \in baseGOids : b1 \notin GOdict[b2].recursive_parents
        /\ \A t \in subsetGOids :
              \/ t \in baseGOids
              \/ \E b \in baseGOids : t \in GOdict[b].recursive_parents

\* two base terms, and an associated term left out as an ancestor
C6_Witness ==
    /\ pc = "run"
    /\ Cardinality(baseGOids) >= 2
    /\ subsetGOids \ baseGOids # {}

\* C7: when the run has ended, every term directly associated with a subset
\* member has been visited (its counts were computed).
C7_AssociatedTermsVisited ==
    pc = "done" => \A t \in subsetGOids : evalCount[t] > 0

\* the table of the run started at the base terms: the terms reached from
\* the base terms through low-count and not significant terms
PropagatesOf(inp, t) ==
    \/ backgroundGOOf(inp, t) < inp.minGenes
    \/ Greater(pValOf(inp, t), inp.threshold)

RECURSIVE ReachOf(_, _)
ReachOf(inp, S) ==
    LET n == S \cup UNION {inp.GOdict[t].parents : t \in {x \in S : PropagatesOf(inp, x)}}
    IN  IF n = S THEN S ELSE ReachOf(inp, n)

ExpectedTested ==
    {t \in ReachOf(CurrentInputs, BaseGOids) : backgroundGO(t) >= minGenes}

ExpectedResults ==
    [pValues         |-> [t \in ExpectedTested |-> pVal(t)],
     interestCount   |-> [t \in ExpectedTested |-> subsetGO(t)],
     backgroundCount |-> [t \in ExpectedTested |-> backgroundGO(t)]]

\* C8: the run started at every associated term ends with the table of the
\* run started at the base terms only.
C8_SameTableFromAllStarts ==
    pc = "done" => enrichmentTestResults = ExpectedResults

\* C9 as stated: among the inputs a run can start with, some have two
\* processing orders that end with different sets of tested terms.
C9_OrderDependent ==
    pc = "start" =>
        \E inp \in InputsOver(DAGs) : Cardinality(RunOutcomes(inp)) > 1

\* C9 amended: the final table does not depend on the processing order:
\* every run ends with the one table fixed by the inputs, and every order of
\* the base terms and of the parents ends with the same set of tested terms.
C9_OrderIndependent ==
    pc = "done" =>
        /\ enrichmentTestResults = ExpectedResults
        /\ RunOutcomes(CurrentInputs) = {Tested}

\* two base terms share a parent; one is significant and stops, the other
\* propagates, and the parent is tested
C9_Witness ==
    /\ pc = "done"
    /\ \E b1, b2 \in baseGOids :
          /\ b1 # b2
          /\ Significant(b1)
          /\ Propagated(b2)
          /\ GOdict[b1].parents \cap GOdict[b2].parents \cap Tested # {}

\* C10: a second call of recursiveTester on a term, on the table the first
\* call left, writes nothing: the table is unchanged by every step of it.
C10_SecondCallNoOp ==
    [][pc = "again" =>
          /\ enrichmentTestResults' = enrichmentTestResults
          /\ writeCount' = writeCount]_vars

\* the second call skipped its term as low-count again and called a parent
C10_Witness ==
    /\ pc = "again"
    /\ Len(stack) >= 2
    /\ stack[1].phase = "loop"
    /\ backgroundGO(stack[1].GOid) < minGenes

\* C11: in one run each term is evaluated (validTerms built, counts
\* computed) at most once, from however many children or base terms it is
\* reached and whether or not it reaches minGenes.
C11_EvaluatedAtMostOnce == \A t \in Terms : evalCount[t] <= 1

\* C14: no p-value is recorded for a term whose counts are inconsistent for
\* the hypergeometric test: every entry has interestCount <= backgroundCount,
\* interestCount <= subsetTotal and backgroundCount <= backgroundTotal.
C14_NoEntryForInconsistentCounts ==
    \A t \in Tested :
        /\ enrichmentTestResults.interestCount[t] <= enrichmentTestResults.backgroundCount[t]
        /\ enrichmentTestResults.interestCount[t] <= subsetTotal
        /\ enrichmentTestResults.backgroundCount[t] <= backgroundTotal

\* `sum(i < threshold for i in enrichmentTestResults['pValues'].values())`
sig == Cardinality({t \in Tested : Greater(threshold, pValues[t])})

\* C16: the reported count of terms significant at the uncorrected threshold
\* is the number of recorded terms with p-value <= threshold, the terms at
\* which the stopping policy halted the propagation.
C16_SignificantCount ==
    pc = "done" => sig = Cardinality({t \in Tested : Significant(t)})

\* C19: when a run over a DAG has ended, every direct parent of a visited
\* term that was skipped as low-count or recorded with p-value > threshold
\* has been visited: it has an entry or its background count is below
\* minGenes.
C19_VisitedClosedUnderPropagation ==
    pc = "done" =>
        \A t \in Terms : Propagated(t) =>
            \A p \in GOdict[t].parents :
                /\ evalCount[p] > 0
                /\ p \in Tested \/ backgroundGO(p) < minGenes

\* the run ended after a skipped low-count term and a recorded not
\* significant term, each with a parent, and a memo return on a shared parent
C19_Witness ==
    /\ pc = "done"
    /\ \E t \in Terms : evalCount[t] > 0 /\ backgroundGO(t) < minGenes
                        /\ GOdict[t].parents # {}
    /\ \E t, u \in Terms :
          /\ t # u
          /\ Propagated(t) /\ Propagated(u)
          /\ GOdict[t].parents \cap GOdict[u].parents \cap Tested # {}

\* the Bonferroni value of a term's own p-value: p * n, at most 1
BonferroniOf(t) == Clip(Scale(pValues[t], Cardinality(Tested), 1))

\* the Benjamini-Hochberg value of a term's own p-value: the least
\* q * n / #{p-values <= q} over the p-values q >= p, at most 1
BenjaminiHochbergOf(t) ==
    Clip(RatMin({Scale(pValues[u], Cardinality(Tested),
                       Cardinality({v \in Tested : ~Greater(pValues[v], pValues[u])})) :
                 u \in {u \in Tested : ~Greater(pValues[t], pValues[u])}}))

RatEq(p, q) == p[1] * q[2] = q[1] * p[2]

\* C12: after multipleTestingCorrection with a documented method 'corr' has
\* exactly the keys of 'pValues', every term is paired with the corrected
\* value of its own raw p-value, and the raw p-values and the counts are the
\* ones the table had before.
C12_CorrAlignedWithPValues ==
    /\ [](pc = "corrected" /\ testType \in {"bonferroni", "fdr"} =>
            /\ DOMAIN enrichmentTestResults.corr = Tested
            /\ \A t \in Tested :
                 RatEq(enrichmentTestResults.corr[t],
                       IF testType = "bonferroni" THEN BonferroniOf(t)
                       ELSE BenjaminiHochbergOf(t)))
    /\ [][pc' = "corrected" =>
            /\ enrichmentTestResults'.pValues = enrichmentTestResults.pValues
            /\ enrichmentTestResults'.interestCount = enrichmentTestResults.interestCount
            /\ enrichmentTestResults'.backgroundCount = enrichmentTestResults.backgroundCount]_vars

\* a corrected table of three terms whose corrected values all differ, the
\* term with the greatest p-value not being the one with the greatest id
C12_Witness ==
    /\ pc = "corrected"
    /\ testType = "fdr"
    /\ Cardinality(Tested) = 3
    /\ \A t, u \in Tested :
          t # u => ~RatEq(enrichmentTestResults.corr[t], enrichmentTestResults.corr[u])
    /\ \E t, u \in Tested : t < u /\ Greater(pValues[t], pValues[u])

\* C13: a method other than 'bonferroni' and 'fdr' ends in an error and adds
\* no corrected values.
C13_UnknownMethodRejected ==
    testType \notin {"unset", "bonferroni", "fdr"} =>
        pc # "corrected" /\ "corr" \notin DOMAIN enrichmentTestResults

\* C17: with 'bonferroni' every corrected p-value is at least the raw p-value
\* of its term.
C17_BonferroniNotBelowRaw ==
    pc = "corrected" /\ testType = "bonferroni" =>
        \A t \in Tested : ~Greater(pValues[t], enrichmentTestResults.corr[t])

\* a Bonferroni-corrected table with a value strictly above its raw p-value
\* and a value clipped at 1
C17_Witness ==
    /\ pc = "corrected"
    /\ testType = "bonferroni"
    /\ \E t \in Tested : /\ Greater(enrichmentTestResults.corr[t], pValues[t])
                         /\ Greater(<<1, 1>>, enrichmentTestResults.corr[t])
    /\ \E t \in Tested : /\ Greater(<<1, 1>>, pValues[t])
                         /\ RatEq(enrichmentTestResults.corr[t], <<1, 1>>)

\* the terms the association maps name
Referenced ==
    UNION {gafDict[gene] : gene \in DOMAIN gafDict}
        \cup UNION {gafSubset[gene] : gene \in DOMAIN gafSubset}

\* C15: a run does not end normally when a term named by the background
\* map, by the subset map, or reached as a parent during propagation is
\* absent from the hierarchy.
C15_UnknownTermAborts ==
    pc = "done" =>
        /\ \A GOid \in Referenced : Known(GOid)
        /\ \A t \in Terms : evalCount[t] > 0 /\ (t \notin Tested \/ ~Significant(t)) =>
              \A parent \in GOdict[t].parents : Known(parent)

\* C18: countGOassociations returns the number of distinct members of the
\* map whose term set shares a term with validTerms, each member counted
\* once however many of its terms are in validTerms; it returns 0 for an
\* empty validTerms; it changes neither argument.
C18_CountsAssociatedMembers ==
    /\ [](count.returned =>
            /\ count.GOcounter =
                  Cardinality({gene \in DOMAIN count.gafDict :
                                  \E GOid \in count.gafDict[gene] : GOid \in count.validTerms})
            /\ count.GOcounter = countGOassociations(count.validTerms, count.gafDict)
            /\ count.validTerms = {} => count.GOcounter = 0)
    /\ [][/\ count'.validTerms = count.validTerms
          /\ count'.gafDict = count.gafDict]_vars

\* a returned call on a map with a member sharing two terms with validTerms,
\* a member sharing none, and a count below the number of members
C18_Witness ==
    /\ count.returned
    /\ \E gene \in DOMAIN count.gafDict :
          Cardinality(count.gafDict[gene] \cap count.validTerms) = 2
    /\ \E gene \in DOMAIN count.gafDict : count.gafDict[gene] \cap count.validTerms = {}
    /\ count.GOcounter \in 2..(Cardinality(DOMAIN count.gafDict) - 1)

\* C20: with the base terms handled by parallel workers on the shared table,
\* interleaved at statement granularity, the membership test and the
\* recording of a term are one indivisible step: no entry is written twice.
C20_RecordedByOneInvocation == \A t \in Terms : writeCount[t] <= 1

\* C21: every visited term is a base term or an ancestor of a base term, so
\* its subset count is never 0, and every entry of the table has
\* 1 <= interestCount <= subsetTotal and backgroundCount <= backgroundTotal.
C21_VisitedHaveSubsetMembers ==
    /\ \A t \in Terms : evalCount[t] > 0 =>
          /\ t \in baseGOids \cup UNION {GOdict[b].recursive_parents : b \in baseGOids}
          /\ subsetGO(t) >= 1
    /\ \A t \in Tested :
          /\ enrichmentTestResults.interestCount[t] >= 1
          /\ enrichmentTestResults.interestCount[t] <= subsetTotal
          /\ enrichmentTestResults.backgroundCount[t] <= backgroundTotal

\* a finished run that recorded an ancestor no subset member is annotated
\* with, below the totals, and visited a low-count term
C21_Witness ==
    /\ pc = "done"
    /\ \E t \in Tested :
          /\ t \notin baseGOids
          /\ t \notin subsetGOids
          /\ enrichmentTestResults.interestCount[t] < subsetTotal
          /\ enrichmentTestResults.backgroundCount[t] < backgroundTotal
    /\ \E t \in Terms : evalCount[t] > 0 /\ t \notin Tested

====
